---- MODULE Spec2Model ----
(***************************************************************************)
(* Model of tools/generate_flashcard_audio: the audio synthesis pipeline    *)
(* (generate_audio_pcm, generate_audio_google_cloud_tts,                   *)
(* generate_and_save_audio and the PCM helpers) and the batch driver       *)
(* (sanitize_filename, process_csv, main).                                 *)
(*                                                                         *)
(* Byte strings are run-length encoded: a sequence of runs [b, n] (n > 0   *)
(* copies of byte b), no two adjacent runs with the same byte, so that two *)
(* byte strings are equal exactly when their encodings are equal.          *)
(* Text is a sequence of one-character strings; a path is a sequence of    *)
(* path pieces.                                                            *)
(***************************************************************************)
EXTENDS Integers, Sequences, FiniteSets, TLC

VARIABLES
    text, output_filename, lang, voice_type, pause_duration_ms, retries,
    backoff_factor, quiet, verbose,          \* arguments of generate_and_save_audio
    API_KEY,        \* the key read from the environment at import
    fs,             \* the filesystem: path -> file content
    pc,             \* position of the call
    parts, idx, combined_pcm, sample_rate,   \* locals of generate_and_save_audio
    phrase, language_code,                   \* arguments of the provider calls
    pcm_data, rate,                          \* what the provider call returned
    i, response,                             \* locals of generate_audio_pcm
    tts_response,   \* what the secondary provider did in the last call of it
    log,            \* history: requests, sleeps and secondary calls, in order
    got,            \* history: the (pcm, rate) accepted for each part, in order
    printed,        \* standard output: the messages printed, in order
    result,         \* outcome of the call
    csv,            \* the CSV file given to main
    word_lang_map, words, widx, success_count, total_count,  \* locals of process_csv
    returned,       \* the pair process_csv returned
    calls,          \* history: the calls of generate_and_save_audio made by process_csv
    exit_status,    \* the status main exited with
    bpc             \* position of main and process_csv

inputs == <<text, output_filename, lang, voice_type, pause_duration_ms, retries,
            backoff_factor, quiet, verbose, API_KEY>>
batch == <<csv, word_lang_map, words, widx, success_count, total_count, returned,
           calls, exit_status, bpc>>
vars == <<text, output_filename, lang, voice_type, pause_duration_ms, retries,
          backoff_factor, quiet, verbose, API_KEY,
          fs, pc, parts, idx, combined_pcm, sample_rate, phrase, language_code,
          pcm_data, rate, i, response, tts_response, log, got, printed, result,
          csv, word_lang_map, words, widx, success_count, total_count, returned,
          calls, exit_status, bpc>>

----------------------------------------------------------------------------
(* Bounds of the model *)

MaxLen == 3            \* longest text given to generate_and_save_audio
MaxRetries == 2        \* largest retry budget in Spec
MaxPcmRetries == 4     \* largest retry budget in SpecPcm
MaxPcmBackoff == 3     \* largest backoff factor in SpecPcm

Chars == {"a", "b", " ", "/"}
Texts == UNION {[1..n -> Chars] : n \in 0..MaxLen}
Langs == {"es", "en"}
VoiceTypes == {"neural2", "wavenet"}
PauseDurations == {500, 250}

\* the language, voice and pause of a call: the defaults, or all three changed
Settings ==
    {s_ \in Langs \X VoiceTypes \X PauseDurations :
        /\ (s_[1] = "es") = (s_[2] = "neural2")
        /\ (s_[1] = "es") = (s_[3] = 500)}

----------------------------------------------------------------------------
(* Byte strings *)

Max(a, b) == IF a >= b THEN a ELSE b
Min(a, b) == IF a <= b THEN a ELSE b

RECURSIVE Pow2(_)
Pow2(n) == IF n <= 0 THEN 1 ELSE 2 * Pow2(n - 1)

\* b * n of Python: n copies of one byte, empty when n <= 0
Bytes(b, n) == IF n <= 0 THEN <<>> ELSE <<[b |-> b, n |-> n]>>

\* x + y on bytes
Cat(x, y) ==
    IF x = <<>> THEN y
    ELSE IF y = <<>> THEN x
    ELSE IF x[Len(x)].b = y[1].b
         THEN SubSeq(x, 1, Len(x) - 1)
              \o <<[b |-> y[1].b, n |-> x[Len(x)].n + y[1].n]>>
              \o Tail(y)
         ELSE x \o y

RECURSIVE LenBytes(_)
LenBytes(x) == IF x = <<>> THEN 0 ELSE x[1].n + LenBytes(Tail(x))

\* x[k:] on bytes, 0 <= k
RECURSIVE DropBytes(_, _)
DropBytes(x, k) ==
    IF k <= 0 \/ x = <<>> THEN x
    ELSE IF x[1].n <= k THEN DropBytes(Tail(x), k - x[1].n)
    ELSE <<[b |-> x[1].b, n |-> x[1].n - k]>> \o Tail(x)

----------------------------------------------------------------------------
(* PCM helpers *)

generate_silence_pcm(duration_ms, sample_rate_, num_channels, sample_width) ==
    LET num_samples == (sample_rate_ * duration_ms) \div 1000
        num_bytes == num_samples * num_channels * sample_width
    IN  Bytes(0, num_bytes)

\* the sample width left out of the byte count
trim_audio_beginning_SamplesAsBytes(pcm, trim_ms, sample_rate_, num_channels, sample_width) ==
    LET trim_samples == (sample_rate_ * trim_ms) \div 1000
        trim_bytes == Min(trim_samples * num_channels, LenBytes(pcm))
    IN  DropBytes(pcm, trim_bytes)

trim_audio_beginning(pcm, trim_ms, sample_rate_, num_channels, sample_width) ==
    LET trim_samples == (sample_rate_ * trim_ms) \div 1000
        trim_bytes == Min(trim_samples * num_channels * sample_width, LenBytes(pcm))
    IN  DropBytes(pcm, trim_bytes)

\* the container written by the wave module: header fields, then the payload
pcm_to_wav(pcm, sample_rate_, num_channels, sample_width) ==
    [tag |-> "wav",
     riff_size |-> 36 + LenBytes(pcm),
     nchannels |-> num_channels,
     framerate |-> sample_rate_,
     byte_rate |-> num_channels * sample_rate_ * sample_width,
     block_align |-> num_channels * sample_width,
     bits_per_sample |-> sample_width * 8,
     data_size |-> LenBytes(pcm),
     data |-> pcm]

\* wave.setframerate rejects a rate <= 0 with wave.Error
WaveAccepts(sample_rate_) == sample_rate_ > 0

----------------------------------------------------------------------------
(* Files *)

temp_file == <<"temp_audio.wav">>    \* relative to the working directory
OutFile == <<"out.wav">>             \* the destination of the single call
Paths == {OutFile, temp_file}

NoFile == [tag |-> "absent"]
OldFile == [tag |-> "old"]            \* a file written before this call
EmptyFile == [tag |-> "truncated"]    \* opened for writing, payload not written

----------------------------------------------------------------------------
(* Text *)

HasSlash(t) == \E k \in 1..Len(t) : t[k] = "/"

RECURSIVE LStrip(_)
LStrip(t) == IF t # <<>> /\ Head(t) = " " THEN LStrip(Tail(t)) ELSE t

RECURSIVE RStrip(_)
RStrip(t) == IF t # <<>> /\ t[Len(t)] = " " THEN RStrip(SubSeq(t, 1, Len(t) - 1)) ELSE t

\* str.strip()
Strip(t) == RStrip(LStrip(t))

\* str.split('/')
RECURSIVE Split(_)
Split(t) ==
    IF ~HasSlash(t) THEN <<t>>
    ELSE LET k == CHOOSE j \in 1..Len(t) :
                     t[j] = "/" /\ \A m \in 1..(j - 1) : t[m] # "/"
         IN  <<SubSeq(t, 1, k - 1)>> \o Split(SubSeq(t, k + 1, Len(t)))

RECURSIVE StripNonEmpty(_)
StripNonEmpty(ps) ==
    IF ps = <<>> THEN <<>>
    ELSE IF Strip(Head(ps)) # <<>>
         THEN <<Strip(Head(ps))>> \o StripNonEmpty(Tail(ps))
         ELSE StripNonEmpty(Tail(ps))

\* the split without the filter on empty parts
SplitParts_KeepEmpty(t) == LET ps == Split(t) IN [j \in 1..Len(ps) |-> Strip(ps[j])]

\* [part.strip() for part in text.split('/') if part.strip()]
SplitParts(t) == StripNonEmpty(Split(t))

\* f"{lang}-US"
LanguageCode(l) == CASE l = "es" -> "es-US" [] l = "en" -> "en-US" [] OTHER -> "xx-US"

\* the prompt sent to the primary provider
Prompt(language, t) ==
    IF language \in {"en-US", "en-GB"} THEN <<"Say this in US English: ", t>>
    ELSE IF language \in {"es-US", "es-ES"} THEN <<"Say this in US Spanish: ", t>>
    ELSE <<"", t>>

\* voice selected for the secondary provider
VoiceName(l, v) ==
    IF l = "en"
    THEN (IF v = "wavenet" THEN "en-US-Wavenet-F" ELSE "en-US-Neural2-F")
    ELSE (IF v = "wavenet" THEN "es-US-Wavenet-A" ELSE "es-US-Neural2-A")

----------------------------------------------------------------------------
(* What the primary provider can answer *)

Absent == "<absent>"        \* a header or JSON key that is not there (None)

\* Retry-After: not sent, empty, seconds, or an HTTP date
RetryAfterValues == {Absent, "", "0", "5", "Wed, 21 Oct 2015 07:28:00 GMT"}

Truthy(s) == s # Absent /\ s # ""

IsInt(s) == s \in {"0", "5", "16000", "24000"}

\* int(s) for the strings of the model
IntOf(s) == CASE s = "0" -> 0 [] s = "5" -> 5
              [] s = "16000" -> 16000 [] s = "24000" -> 24000
              [] OTHER -> 0

\* the base64 payloads of the model
DataValues == {Absent, "", "AQEBAQ==", "AAACAg==", "AQEBAQ"}

\* base64.b64decode accepts the payload ("AQEBAQ" has incorrect padding)
IsBase64(s) == s \in {"AQEBAQ==", "AAACAg=="}

b64decode(s) == CASE s = "AQEBAQ==" -> <<[b |-> 1, n |-> 4]>>
                  [] s = "AAACAg==" -> <<[b |-> 0, n |-> 2], [b |-> 2, n |-> 2]>>
                  [] OTHER -> <<>>

MimeValues == {Absent, "text/plain", "audio/L16",
               "audio/L16;codec=pcm;rate=24000", "audio/L16;rate=16000",
               "audio/L16;rate=0", "audio/L16;rate=24000;codec=pcm"}

\* mime_type.startswith("audio/")
StartsWithAudio(m) == m \notin {Absent, "text/plain"}

\* mime_type.split('rate=') has a second element
HasRateParam(m) == m \in {"audio/L16;codec=pcm;rate=24000", "audio/L16;rate=16000",
                          "audio/L16;rate=0", "audio/L16;rate=24000;codec=pcm"}

\* mime_type.split('rate=')[1]
RateParam(m) == CASE m = "audio/L16;codec=pcm;rate=24000" -> "24000"
                  [] m = "audio/L16;rate=16000" -> "16000"
                  [] m = "audio/L16;rate=0" -> "0"
                  [] m = "audio/L16;rate=24000;codec=pcm" -> "24000;codec=pcm"
                  [] OTHER -> ""

\* body of a response: unparseable, without the candidates key, with an empty
\* candidates list, or with one candidate carrying inlineData
Bodies ==
    {[shape |-> s, data |-> Absent, mime |-> Absent] :
        s \in {"not_json", "no_candidates", "empty_candidates"}}
    \cup {[shape |-> "inline", data |-> d, mime |-> m] : d \in DataValues, m \in MimeValues}

NoBody == [shape |-> "none", data |-> Absent, mime |-> Absent]

\* requests.post raises a RequestException (no response), or a response arrives
Responses ==
    {[sent |-> FALSE, status_code |-> 0, retry_after |-> Absent, body |-> NoBody]}
    \cup {[sent |-> TRUE, status_code |-> 429, retry_after |-> h, body |-> NoBody] :
            h \in RetryAfterValues}
    \cup {[sent |-> TRUE, status_code |-> 500, retry_after |-> Absent, body |-> NoBody]}
    \cup {[sent |-> TRUE, status_code |-> 200, retry_after |-> Absent, body |-> b] :
            b \in Bodies}

NoResponse == [sent |-> FALSE, status_code |-> -1, retry_after |-> Absent, body |-> NoBody]

\* the answers used when whole calls of generate_and_save_audio are explored:
\* one of each way an attempt can end (network error, rate limit, unusable
\* Retry-After, no audio, no rate parameter) and four usable ones (two payloads,
\* three rates)
ComposerResponses ==
    {r \in Responses :
        \/ ~r.sent
        \/ r.status_code = 429 /\ r.retry_after \in {Absent, "Wed, 21 Oct 2015 07:28:00 GMT"}
        \/ r.status_code = 200 /\ r.body.shape = "no_candidates"
        \/ r.status_code = 200 /\ r.body.shape = "inline" /\ r.body.data = "AQEBAQ=="
              /\ r.body.mime \in {"audio/L16", "audio/L16;codec=pcm;rate=24000",
                                  "audio/L16;rate=16000", "audio/L16;rate=0"}
        \/ r.status_code = 200 /\ r.body.shape = "inline" /\ r.body.data = "AAACAg=="
              /\ r.body.mime = "audio/L16;codec=pcm;rate=24000"}

----------------------------------------------------------------------------
(* generate_audio_pcm *)

NoRate == -1                                 \* None as a sample rate
None == [none |-> TRUE, bytes |-> <<>>]      \* None as PCM data
Pcm(x) == [none |-> FALSE, bytes |-> x]

\* the floor of two seconds left out
RateLimitDelay_NoFloor(retry_after, backoff_factor_, i_) ==
    IF Truthy(retry_after) THEN IntOf(retry_after)
    ELSE backoff_factor_ * Pow2(i_)

\* delay chosen on HTTP 429
RateLimitDelay(retry_after, backoff_factor_, i_) ==
    IF Truthy(retry_after) THEN IntOf(retry_after)
    ELSE Max(2, backoff_factor_ * Pow2(i_))

\* the except clauses given the two-second floor of the rate-limit branch
TransientDelay_Floor(backoff_factor_, i_) == Max(2, backoff_factor_ * Pow2(i_))

\* delay of the except clauses
TransientDelay(backoff_factor_, i_) == backoff_factor_ * Pow2(i_)

\* i < retries - 1
NotLastAttempt(i_, retries_) == i_ < retries_ - 1

Sleep(d) == [do |-> "sleep", delay |-> d, pcm |-> None, rate |-> NoRate, exc |-> ""]
Return(p, r) == [do |-> "return", delay |-> 0, pcm |-> p, rate |-> r, exc |-> ""]
Raise(e) == [do |-> "raise", delay |-> 0, pcm |-> None, rate |-> NoRate, exc |-> e]

\* the two except clauses: sleep and go on, or give up on the last attempt
OnRequestException(i_, retries_, backoff_factor_) ==
    IF NotLastAttempt(i_, retries_)
    THEN Sleep(TransientDelay(backoff_factor_, i_))
    ELSE Return(None, NoRate)

\* the rate-limit branch
OnRateLimit(r, i_, retries_, backoff_factor_) ==
    IF Truthy(r.retry_after) /\ ~IsInt(r.retry_after)
    THEN Raise("ValueError")
    ELSE IF NotLastAttempt(i_, retries_)
         THEN Sleep(RateLimitDelay(r.retry_after, backoff_factor_, i_))
         ELSE Return(None, NoRate)

\* a parsed body: pick the part, check it, decode it
OnJson(body) ==
    IF body.shape = "empty_candidates" THEN Raise("IndexError")
    ELSE IF Truthy(body.data) /\ Truthy(body.mime) /\ StartsWithAudio(body.mime)
         THEN IF ~HasRateParam(body.mime) THEN Raise("IndexError")
              ELSE IF ~IsInt(RateParam(body.mime)) THEN Raise("ValueError")
              ELSE IF ~IsBase64(body.data) THEN Raise("binascii.Error")
              ELSE Return(Pcm(b64decode(body.data)), IntOf(RateParam(body.mime)))
         ELSE Return(None, NoRate)

\* one iteration of the retry loop on response r. The error response.json()
\* raises on an unparseable body is requests.exceptions.JSONDecodeError, a
\* RequestException, so the second except clause takes it.
AttemptOutcome(r, i_, retries_, backoff_factor_) ==
    IF ~r.sent THEN OnRequestException(i_, retries_, backoff_factor_)
    ELSE IF r.status_code = 429 THEN OnRateLimit(r, i_, retries_, backoff_factor_)
    ELSE IF r.status_code >= 400 THEN OnRequestException(i_, retries_, backoff_factor_)
    ELSE IF r.body.shape = "not_json"
         THEN OnRequestException(i_, retries_, backoff_factor_)
    ELSE OnJson(r.body)

\* a printed line: which message, the text quoted in it, the numbers and
\* the exception text formatted into it
Msg(kind, t, nums, e) == [kind |-> kind, text |-> t, nums |-> nums, e |-> e]

\* the query string of the request URL carries the key
url_path == <<"/v1beta/models/gemini-2.5-flash-preview-tts:generateContent?key=", API_KEY>>
url == <<"https://generativelanguage.googleapis.com">> \o url_path

\* str(e) of the HTTPError raised by raise_for_status: status, reason, URL
HTTPErrorMessage(r) == <<"Server Error: Internal Server Error for url: ">> \o url

\* str(e) of the ConnectionError of a request that got no answer
ConnectionErrorMessage ==
    <<"HTTPSConnectionPool(host='generativelanguage.googleapis.com', port=443): Max retries exceeded with url: ">>
    \o url_path

\* str(e) of the JSONDecodeError of response.json()
JSONDecodeErrorMessage == <<"Expecting value: line 1 column 1 (char 0)">>

\* what the two except clauses print
RequestExceptionPrints(r, i_, retries_, text_, verbose_) ==
    <<Msg("attempt_failed", text_, <<i_ + 1, retries_>>,
          IF ~r.sent THEN ConnectionErrorMessage
          ELSE IF r.status_code >= 400 THEN HTTPErrorMessage(r)
          ELSE JSONDecodeErrorMessage)>>
    \o (IF verbose_ /\ r.sent /\ r.status_code >= 400
        THEN <<Msg("response_details", <<>>, <<r.status_code>>, <<>>)>>
        ELSE <<>>)
    \o (IF NotLastAttempt(i_, retries_) THEN <<>>
        ELSE <<Msg("max_retries_fallback", text_, <<>>, <<>>)>>)

\* what the rate-limit branch prints
RateLimitPrints(r, i_, retries_, backoff_factor_, text_) ==
    IF Truthy(r.retry_after) /\ ~IsInt(r.retry_after) THEN <<>>
    ELSE <<IF Truthy(r.retry_after)
           THEN Msg("rate_limit_retry_after", text_, <<IntOf(r.retry_after)>>, <<>>)
           ELSE Msg("rate_limit_backoff", text_,
                    <<Max(2, backoff_factor_ * Pow2(i_)), i_ + 1, retries_>>, <<>>)>>
         \o (IF NotLastAttempt(i_, retries_) THEN <<>>
             ELSE <<Msg("max_retries_rate_limit", text_, <<>>, <<>>)>>)

\* what one iteration of the retry loop prints
AttemptPrints(r, i_, retries_, backoff_factor_, text_, verbose_) ==
    IF ~r.sent THEN RequestExceptionPrints(r, i_, retries_, text_, verbose_)
    ELSE IF r.status_code = 429
         THEN RateLimitPrints(r, i_, retries_, backoff_factor_, text_)
    ELSE IF r.status_code >= 400 \/ r.body.shape = "not_json"
         THEN RequestExceptionPrints(r, i_, retries_, text_, verbose_)
    ELSE IF OnJson(r.body) = Return(None, NoRate)
         THEN <<Msg("no_audio_data", text_, <<>>, <<>>)>>
              \o (IF verbose_ THEN <<Msg("full_response", <<>>, <<>>, <<>>)>> ELSE <<>>)
    ELSE <<>>

Raised(e) == [kind |-> "raised", value |-> FALSE, exc |-> e]
Returned(v) == [kind |-> "returned", value |-> v, exc |-> ""]
Running == [kind |-> "running", value |-> FALSE, exc |-> ""]

\* events of the history: op, the index of the part at work, what was sent,
\* and the attempt index (post) or the seconds slept (sleep)
PostEvent == [op |-> "post", idx |-> idx, text |-> Prompt(language_code, phrase), n |-> i]
SleepEvent(d) == [op |-> "sleep", idx |-> idx, text |-> <<>>, n |-> d]

PcmAttempt(r) ==
    /\ pc = "pcm"
    /\ i < retries
    /\ LET o == AttemptOutcome(r, i, retries, backoff_factor)
       IN  /\ response' = r
           /\ printed' = printed \o AttemptPrints(r, i, retries, backoff_factor,
                                                  phrase, verbose)
           /\ CASE o.do = "sleep" ->
                    /\ log' = log \o <<PostEvent, SleepEvent(o.delay)>>
                    /\ i' = i + 1
                    /\ UNCHANGED <<pc, pcm_data, rate, result>>
                [] o.do = "return" ->
                    /\ log' = Append(log, PostEvent)
                    /\ pcm_data' = o.pcm
                    /\ rate' = o.rate
                    /\ pc' = "fallback"
                    /\ UNCHANGED <<i, result>>
                [] OTHER ->
                    /\ log' = Append(log, PostEvent)
                    /\ result' = Raised(o.exc)
                    /\ pc' = "done"
                    /\ UNCHANGED <<i, pcm_data, rate>>
    /\ UNCHANGED <<inputs, fs, parts, idx, combined_pcm, sample_rate, phrase,
                   language_code, tts_response, got, batch>>

\* the loop ends without a return: the budget is zero or negative
PcmExhausted ==
    /\ pc = "pcm"
    /\ ~(i < retries)
    /\ pcm_data' = None
    /\ rate' = NoRate
    /\ pc' = "fallback"
    /\ UNCHANGED <<inputs, fs, parts, idx, combined_pcm, sample_rate, phrase,
                   language_code, i, response, tts_response, log, got, printed,
                   result, batch>>

----------------------------------------------------------------------------
(* generate_audio_google_cloud_tts *)

\* what the secondary provider can do: the client cannot be created, the
\* request raises, or LINEAR16 audio comes back (300 ms of silence and speech,
\* or less than 200 ms of audio)
SecondaryOutcomes ==
    {[kind |-> "client_error", audio_content |-> <<>>],
     [kind |-> "synth_error", audio_content |-> <<>>],
     [kind |-> "audio", audio_content |-> <<[b |-> 0, n |-> 14400], [b |-> 3, n |-> 4]>>],
     [kind |-> "audio", audio_content |-> <<[b |-> 3, n |-> 100]>>]}

NoTts == [kind |-> "none", audio_content |-> <<>>, requests |-> 0]

\* the except clause taking the failure of the client only
generate_audio_google_cloud_tts_ClientErrorOnly(o) ==
    IF o.kind = "audio"
    THEN [do |-> "return", requests |-> 1, rate |-> 24000,
          pcm |-> Pcm(trim_audio_beginning(o.audio_content, 200, 24000, 1, 2))]
    ELSE IF o.kind = "synth_error"
    THEN [do |-> "raise", requests |-> 1, rate |-> NoRate, pcm |-> None]
    ELSE [do |-> "return", requests |-> 0, rate |-> NoRate, pcm |-> None]

\* the call on outcome o: how it ends, the synthesis requests it made and the
\* (audio, rate) pair it returns; except Exception takes both failures
generate_audio_google_cloud_tts(o) ==
    IF o.kind = "audio"
    THEN [do |-> "return", requests |-> 1, rate |-> 24000,
          pcm |-> Pcm(trim_audio_beginning(o.audio_content, 200, 24000, 1, 2))]
    ELSE [do |-> "return", rate |-> NoRate, pcm |-> None,
          requests |-> IF o.kind = "client_error" THEN 0 ELSE 1]

\* str(e) printed by the except clause
CloudTtsErrorMessage(o) ==
    IF o.kind = "client_error"
    THEN <<"Your default credentials were not found.">>
    ELSE <<"503 failed to connect to all addresses">>

TtsEvent == [op |-> "tts", idx |-> idx, text |-> <<VoiceName(lang, voice_type), phrase>>, n |-> 0]

----------------------------------------------------------------------------
(* generate_and_save_audio *)

\* the existence check looking at the wrong path
os_path_exists_WrongPath(f, path) == f[temp_file] # NoFile

\* the existence check finding nothing
os_path_exists_Never(f, path) == FALSE

\* os.path.exists(path)
os_path_exists(f, path) == f[path] # NoFile

\* the secondary provider called whatever the primary returned
NeedsFallback_Always(p) == TRUE

\* if pcm_data is None: the primary provider gave nothing
NeedsFallback(p) == p = None

\* entry: the existence check, the split, the first call of generate_audio_pcm
Call ==
    /\ pc = "start"
    /\ IF os_path_exists(fs, output_filename)
       THEN /\ result' = Returned(TRUE)
            /\ pc' = "done"
            /\ UNCHANGED <<parts, idx, combined_pcm, sample_rate, phrase,
                           language_code, i, printed>>
       ELSE IF HasSlash(text)
       THEN /\ parts' = SplitParts(text)
            /\ IF parts' = <<>>
               THEN /\ result' = Returned(FALSE)
                    /\ pc' = "done"
                    /\ printed' = printed
                          \o (IF quiet THEN <<>>
                              ELSE <<Msg("no_valid_parts", text, <<>>, <<>>)>>)
                    /\ UNCHANGED <<idx, combined_pcm, sample_rate, phrase,
                                   language_code, i>>
               ELSE /\ combined_pcm' = <<>>
                    /\ sample_rate' = NoRate
                    /\ idx' = 0
                    /\ phrase' = parts'[1]
                    /\ language_code' = LanguageCode(lang)
                    /\ i' = 0
                    /\ pc' = "pcm"
                    /\ UNCHANGED <<result, printed>>
       ELSE /\ phrase' = text
            /\ language_code' = LanguageCode(lang)
            /\ i' = 0
            /\ pc' = "pcm"
            /\ UNCHANGED <<parts, idx, combined_pcm, sample_rate, result, printed>>
    /\ UNCHANGED <<inputs, fs, pcm_data, rate, response, tts_response, log, got,
                   batch>>

\* after generate_audio_pcm: the secondary provider when it returned None
Fallback ==
    /\ pc = "fallback"
    /\ IF NeedsFallback(pcm_data)
       THEN \E o \in SecondaryOutcomes :
                LET r == generate_audio_google_cloud_tts(o)
                IN  /\ tts_response' = [kind |-> o.kind,
                                        audio_content |-> o.audio_content,
                                        requests |-> r.requests]
                    /\ log' = Append(log, TtsEvent)
                    /\ printed' = printed
                          \o (IF quiet THEN <<>>
                              ELSE <<Msg("trying_cloud_tts", phrase, <<>>, <<>>)>>)
                          \o (IF o.kind = "audio" \/ r.do = "raise" THEN <<>>
                              ELSE <<Msg("cloud_tts_failed", phrase, <<>>,
                                         CloudTtsErrorMessage(o))>>)
                    /\ IF r.do = "return"
                       THEN /\ pcm_data' = r.pcm
                            /\ rate' = r.rate
                            /\ pc' = "check"
                            /\ UNCHANGED result
                       ELSE \* an error no except clause takes leaves the call
                            /\ result' = Raised("Exception")
                            /\ pc' = "done"
                            /\ UNCHANGED <<pcm_data, rate>>
       ELSE /\ pc' = "check"
            /\ UNCHANGED <<pcm_data, rate, tts_response, log, printed, result>>
    /\ response' = NoResponse
    /\ UNCHANGED <<inputs, fs, parts, idx, combined_pcm, sample_rate, phrase,
                   language_code, i, got, batch>>

\* idx < len(parts) - 1
NotLastPart(idx_, parts_) == idx_ < Len(parts_) - 1

\* a pause added after every part, the last one included
PartWithPause_Always(pcm, idx_, parts_, pause, sample_rate_) ==
    Cat(pcm, generate_silence_pcm(pause, sample_rate_, 1, 2))

\* what follows a part's PCM in the multi-part buffer
PartWithPause(pcm, idx_, parts_, pause, sample_rate_) ==
    IF NotLastPart(idx_, parts_)
    THEN Cat(pcm, generate_silence_pcm(pause, sample_rate_, 1, 2))
    ELSE pcm

\* the comparison of sample rates left out
RateMismatch_Never(sample_rate_, rate_) == FALSE

\* only a part with a lower sample rate than the one kept is refused
RateMismatch_OnlyLower(sample_rate_, rate_) == sample_rate_ # NoRate /\ rate_ < sample_rate_

\* the sample rate of this part does not fit the one kept so far
RateMismatch(sample_rate_, rate_) == sample_rate_ # NoRate /\ sample_rate_ # rate_

\* the checks on one synthesized part and its place in the buffer
Check ==
    /\ pc = "check"
    /\ IF pcm_data = None
       THEN /\ result' = Returned(FALSE)
            /\ pc' = "done"
            /\ printed' = printed
                  \o (IF quiet THEN <<>>
                      ELSE <<Msg("failed_both_apis", phrase, <<>>, <<>>)>>)
            /\ UNCHANGED <<idx, combined_pcm, sample_rate, phrase, i, got>>
       ELSE IF parts = <<>>
       THEN \* the text had no separator
            /\ sample_rate' = rate
            /\ combined_pcm' = pcm_data.bytes
            /\ got' = Append(got, [pcm |-> pcm_data.bytes, rate |-> rate])
            /\ pc' = "save"
            /\ UNCHANGED <<idx, phrase, i, result, printed>>
       ELSE IF RateMismatch(sample_rate, rate)
       THEN /\ result' = Returned(FALSE)
            /\ pc' = "done"
            /\ printed' = printed
                  \o (IF quiet THEN <<>>
                      ELSE <<Msg("sample_rate_mismatch", <<>>, <<sample_rate, rate>>,
                                 <<>>)>>)
            /\ UNCHANGED <<idx, combined_pcm, sample_rate, phrase, i, got>>
       ELSE /\ sample_rate' = (IF sample_rate = NoRate THEN rate ELSE sample_rate)
            /\ combined_pcm' = Cat(combined_pcm,
                   PartWithPause(pcm_data.bytes, idx, parts, pause_duration_ms,
                                 sample_rate'))
            /\ got' = Append(got, [pcm |-> pcm_data.bytes, rate |-> rate])
            /\ IF NotLastPart(idx, parts)
               THEN /\ idx' = idx + 1
                    /\ phrase' = parts[idx + 2]
                    /\ i' = 0
                    /\ pc' = "pcm"
               ELSE /\ pc' = "save"
                    /\ UNCHANGED <<idx, phrase, i>>
            /\ UNCHANGED <<result, printed>>
    /\ UNCHANGED <<inputs, fs, parts, language_code, pcm_data, rate, response,
                   tts_response, log, batch>>

\* the lead-in left out
WithLeadIn_None(pcm, sample_rate_) == pcm

\* the PCM handed to pcm_to_wav: 100 ms of silence, then the buffer
WithLeadIn(pcm, sample_rate_) == Cat(generate_silence_pcm(100, sample_rate_, 1, 2), pcm)

\* opening and writing the destination: done, refused at open, or failing
\* after the file was created
WriteOutcomes == {"ok", "open_error", "write_error"}

\* lead-in, pcm_to_wav through temp_audio.wav, and the write of the destination
Save ==
    /\ pc = "save"
    /\ IF ~WaveAccepts(sample_rate)
       THEN /\ fs' = [fs EXCEPT ![temp_file] = EmptyFile]
            /\ result' = Raised("wave.Error")
       ELSE \E w \in WriteOutcomes :
            LET wav_data == pcm_to_wav(WithLeadIn(combined_pcm, sample_rate),
                                       sample_rate, 1, 2)
            IN  CASE w = "ok" ->
                     /\ fs' = [fs EXCEPT ![temp_file] = NoFile,
                                         ![output_filename] = wav_data]
                     /\ result' = Returned(TRUE)
                  [] w = "open_error" ->
                     /\ fs' = [fs EXCEPT ![temp_file] = NoFile]
                     /\ result' = Raised("OSError")
                  [] OTHER ->
                     /\ fs' = [fs EXCEPT ![temp_file] = NoFile,
                                         ![output_filename] = EmptyFile]
                     /\ result' = Raised("OSError")
    /\ pc' = "done"
    /\ UNCHANGED <<inputs, parts, idx, combined_pcm, sample_rate, phrase,
                   language_code, pcm_data, rate, i, response, tts_response, log,
                   got, printed, batch>>

----------------------------------------------------------------------------
(* Specifications *)

\* defaults of generate_and_save_audio
DefaultRetries == 5
DefaultBackoff == 1
DefaultPause == 500

\* values of GEMINI_API_KEY
Keys == {"key-1", "key-2"}

NoCsv == [exists |-> FALSE, columns |-> <<>>, rows |-> <<>>]
NoExit == -1

Locals0 ==
    /\ parts = <<>>
    /\ idx = 0
    /\ combined_pcm = <<>>
    /\ sample_rate = NoRate
    /\ pcm_data = None
    /\ rate = NoRate
    /\ i = 0
    /\ response = NoResponse
    /\ tts_response = NoTts
    /\ log = <<>>
    /\ got = <<>>
    /\ result = Running

\* main and process_csv are not running
NoBatch ==
    /\ csv = NoCsv
    /\ word_lang_map = <<>>
    /\ words = <<>>
    /\ widx = 0
    /\ success_count = 0
    /\ total_count = 0
    /\ returned = <<>>
    /\ calls = <<>>
    /\ exit_status = NoExit
    /\ bpc = "none"

\* one call of generate_and_save_audio
Init ==
    /\ text \in Texts
    /\ output_filename = OutFile
    /\ quiet = FALSE
    /\ verbose = FALSE
    /\ API_KEY = "key-1"
    /\ printed = <<>>
    /\ NoBatch
    /\ \E s_ \in Settings :
           /\ lang = s_[1]
           /\ voice_type = s_[2]
           /\ pause_duration_ms = s_[3]
    /\ retries \in 0..MaxRetries
    /\ backoff_factor = DefaultBackoff
    /\ fs \in [Paths -> {NoFile, OldFile}]
    /\ pc = "start"
    /\ phrase = <<>>
    /\ language_code = ""
    /\ Locals0

Next ==
    \/ Call
    \/ \E r \in ComposerResponses : PcmAttempt(r)
    \/ PcmExhausted
    \/ Fallback
    \/ Check
    \/ Save

Spec == Init /\ [][Next]_vars

\* one call of generate_audio_pcm
PcmLanguages == {"es-US", "en-US", "fr-FR"}

InitPcm ==
    /\ text = <<"a">>
    /\ output_filename = OutFile
    /\ quiet = FALSE
    /\ verbose \in BOOLEAN
    /\ API_KEY \in Keys
    /\ printed = <<>>
    /\ NoBatch
    /\ lang = "es"
    /\ voice_type = "neural2"
    /\ pause_duration_ms = 500
    /\ retries \in (-1)..MaxPcmRetries
    /\ backoff_factor \in 0..MaxPcmBackoff
    /\ fs = [p \in Paths |-> NoFile]
    /\ pc = "pcm"
    /\ phrase = text
    /\ language_code \in PcmLanguages
    /\ Locals0

NextPcm ==
    \/ \E r \in Responses : PcmAttempt(r)
    \/ PcmExhausted

SpecPcm == InitPcm /\ [][NextPcm]_vars

----------------------------------------------------------------------------
(* sanitize_filename, process_csv, main *)

\* str.isalnum() on the characters of the model
IsAlnum(c) == c \in {"a", "b"}

sanitize_filename(t) ==
    LET filename == [k \in 1..Len(t) |-> IF t[k] \in {" ", "/"} THEN "_" ELSE t[k]]
        Keep(c) == IsAlnum(c) \/ c \in {"_", "-", "."}
    IN  SelectSeq(filename, Keep)

\* output_dir / (sanitize_filename(word_str) + '.wav')
output_path(word_str) == <<"words/">> \o sanitize_filename(word_str) \o <<".wav">>

\* code points of the characters of the model
Ord(c) ==
    CASE c = " " -> 32 [] c = "-" -> 45 [] c = "." -> 46 [] c = "/" -> 47
      [] c = "?" -> 63 [] c = "_" -> 95 [] c = "a" -> 97 [] c = "b" -> 98

\* s < t on str
RECURSIVE StrLess(_, _)
StrLess(s_, t) ==
    IF t = <<>> THEN FALSE
    ELSE IF s_ = <<>> THEN TRUE
    ELSE IF Head(s_) # Head(t) THEN Ord(Head(s_)) < Ord(Head(t))
    ELSE StrLess(Tail(s_), Tail(t))

\* sorted(S) for a set of str
RECURSIVE Sorted(_)
Sorted(S) ==
    IF S = {} THEN <<>>
    ELSE LET m == CHOOSE x \in S : \A y \in S \ {x} : StrLess(x, y)
         IN  <<m>> \o Sorted(S \ {m})

\* detect_language_from_header on the headers of the model
detect_language_from_header(header) ==
    IF header \in {"English", "Translation"} THEN "en" ELSE "es"

\* cells of the CSV file: words, a blank cell, an empty cell (NaN)
NaN == <<"<NaN>">>
Cells == {<<"a">>, <<"a", " ", "b">>, <<"a", "/", "b">>, <<" ">>, NaN}

MaxRows == 1           \* most rows of the CSV file

CsvColumns == {<<"Spanish", "English">>, <<"Translation", "Palabra">>}
Tables ==
    {[exists |-> TRUE, readable |-> TRUE, columns |-> c, rows |-> r] :
        c \in CsvColumns,
        r \in UNION {[1..n -> Cells \X Cells] : n \in 0..MaxRows}}
CsvFiles ==
    Tables
    \cup {NoCsv,
          [exists |-> TRUE, readable |-> FALSE, columns |-> <<>>, rows |-> <<>>],
          [exists |-> TRUE, readable |-> TRUE, columns |-> <<"Spanish">>, rows |-> <<>>]}

\* df[col].dropna().unique(), each value stripped
ColumnWords(c, k) ==
    {Strip(c.rows[r][k]) : r \in {q \in 1..Len(c.rows) : c.rows[q][k] # NaN}}

\* main calls process_csv: the file is read, the words are collected and sorted
ProcessCsv ==
    /\ bpc = "main"
    /\ IF ~csv.exists
       THEN /\ printed' = Append(printed, Msg("file_not_found", <<>>, <<>>, <<>>))
            /\ returned' = <<0, 0>>
            /\ bpc' = "exit"
            /\ UNCHANGED <<word_lang_map, words, widx, success_count, total_count>>
       ELSE IF ~csv.readable
       THEN /\ printed' = printed
                  \o <<Msg("processing_csv", <<>>, <<>>, <<>>),
                       Msg("output_directory", <<>>, <<>>, <<>>),
                       Msg("error_processing_csv", <<>>, <<>>, <<"ParserError">>)>>
            /\ returned' = <<0, 0>>
            /\ bpc' = "exit"
            /\ UNCHANGED <<word_lang_map, words, widx, success_count, total_count>>
       ELSE IF Len(csv.columns) < 2
       THEN /\ printed' = printed
                  \o <<Msg("processing_csv", <<>>, <<>>, <<>>),
                       Msg("output_directory", <<>>, <<>>, <<>>),
                       Msg("too_few_columns", <<>>, <<Len(csv.columns)>>, <<>>)>>
            /\ returned' = <<0, 0>>
            /\ bpc' = "exit"
            /\ UNCHANGED <<word_lang_map, words, widx, success_count, total_count>>
       ELSE LET first_col_lang == detect_language_from_header(csv.columns[1])
                second_col_lang == detect_language_from_header(csv.columns[2])
                first == ColumnWords(csv, 1)
                second == ColumnWords(csv, 2)
            IN  /\ printed' = printed
                      \o <<Msg("processing_csv", <<>>, <<>>, <<>>),
                           Msg("output_directory", <<>>, <<>>, <<>>),
                           Msg("column_languages", <<>>, <<>>,
                               <<csv.columns[1], first_col_lang,
                                 csv.columns[2], second_col_lang>>)>>
                /\ word_lang_map' = [w \in first \cup second |->
                                        IF w \in second THEN second_col_lang
                                        ELSE first_col_lang]
                /\ words' = Sorted(first \cup second)
                /\ total_count' = Cardinality(first \cup second)
                /\ success_count' = 0
                /\ widx' = 1
                /\ bpc' = "loop"
                /\ UNCHANGED returned
    /\ UNCHANGED <<inputs, fs, pc, parts, idx, combined_pcm, sample_rate, phrase,
                   language_code, pcm_data, rate, i, response, tts_response, log,
                   got, result, csv, calls, exit_status>>

\* the body of the loop up to the call of generate_and_save_audio
LoopWord ==
    /\ bpc = "loop"
    /\ widx <= Len(words)
    /\ LET word_str == Strip(words[widx])
       IN  IF word_str = <<>>
           THEN \* continue
                /\ widx' = widx + 1
                /\ UNCHANGED <<text, output_filename, lang, quiet, pc, parts, idx,
                               combined_pcm, sample_rate, phrase, language_code,
                               pcm_data, rate, i, response, tts_response, log, got,
                               result, bpc>>
           ELSE /\ text' = word_str
                /\ output_filename' = output_path(word_str)
                /\ lang' = word_lang_map[word_str]
                /\ quiet' = TRUE
                /\ pc' = "start"
                /\ parts' = <<>>
                /\ idx' = 0
                /\ combined_pcm' = <<>>
                /\ sample_rate' = NoRate
                /\ phrase' = <<>>
                /\ language_code' = ""
                /\ pcm_data' = None
                /\ rate' = NoRate
                /\ i' = 0
                /\ response' = NoResponse
                /\ tts_response' = NoTts
                /\ log' = <<>>
                /\ got' = <<>>
                /\ result' = Running
                /\ bpc' = "call"
                /\ UNCHANGED widx
    /\ UNCHANGED <<voice_type, pause_duration_ms, retries, backoff_factor, verbose,
                   API_KEY, fs, printed, csv, word_lang_map, words, success_count,
                   total_count, returned, calls, exit_status>>

\* the call is over: count it, or leave through except Exception
CallReturn ==
    /\ bpc = "call"
    /\ pc = "done"
    /\ calls' = Append(calls, [word |-> text, path |-> output_filename,
                               result |-> result, log |-> log,
                               file |-> fs[output_filename]])
    /\ pc' = "idle"
    /\ IF result.kind = "raised"
       THEN /\ printed' = Append(printed,
                                 Msg("error_processing_csv", <<>>, <<>>, <<result.exc>>))
            /\ returned' = <<0, 0>>
            /\ bpc' = "exit"
            /\ UNCHANGED <<success_count, widx>>
       ELSE /\ success_count' = (IF result.value THEN success_count + 1
                                 ELSE success_count)
            /\ widx' = widx + 1
            /\ bpc' = "loop"
            /\ UNCHANGED <<printed, returned>>
    /\ UNCHANGED <<inputs, fs, parts, idx, combined_pcm, sample_rate, phrase,
                   language_code, pcm_data, rate, i, response, tts_response, log,
                   got, result, csv, word_lang_map, words, total_count, exit_status>>

\* the loop is over: the summary and the return
LoopEnd ==
    /\ bpc = "loop"
    /\ widx > Len(words)
    /\ printed' = Append(printed, Msg("complete", <<>>,
                                      <<success_count, total_count>>, <<>>))
    /\ returned' = <<success_count, total_count>>
    /\ bpc' = "exit"
    /\ UNCHANGED <<inputs, fs, pc, parts, idx, combined_pcm, sample_rate, phrase,
                   language_code, pcm_data, rate, i, response, tts_response, log,
                   got, result, csv, word_lang_map, words, widx, success_count,
                   total_count, calls, exit_status>>

\* sys.exit(0 if success == total else 1)
Exit ==
    /\ bpc = "exit"
    /\ exit_status' = (IF returned[1] = returned[2] THEN 0 ELSE 1)
    /\ bpc' = "exited"
    /\ UNCHANGED <<inputs, fs, pc, parts, idx, combined_pcm, sample_rate, phrase,
                   language_code, pcm_data, rate, i, response, tts_response, log,
                   got, printed, result, csv, word_lang_map, words, widx,
                   success_count, total_count, returned, calls>>

\* what the primary provider answers in the batch
BatchResponses ==
    {r \in ComposerResponses :
        \/ r.status_code = 429 /\ r.retry_after = Absent
        \/ r.status_code = 200 /\ r.body.shape = "empty_candidates"
        \/ r.status_code = 200 /\ r.body.shape = "inline" /\ r.body.data = "AQEBAQ=="
              /\ r.body.mime = "audio/L16;codec=pcm;rate=24000"}

BatchPaths == {temp_file} \cup {output_path(Strip(c)) : c \in Cells \ {NaN}}

\* main given a CSV file, the output directory empty
InitBatch ==
    /\ csv \in CsvFiles
    /\ word_lang_map = <<>>
    /\ words = <<>>
    /\ widx = 0
    /\ success_count = 0
    /\ total_count = 0
    /\ returned = <<>>
    /\ calls = <<>>
    /\ exit_status = NoExit
    /\ bpc = "main"
    /\ text = <<>>
    /\ output_filename = OutFile
    /\ lang = "es"
    /\ voice_type = "neural2"
    /\ pause_duration_ms = DefaultPause
    /\ retries = DefaultRetries
    /\ backoff_factor = DefaultBackoff
    /\ quiet = FALSE
    /\ verbose = FALSE
    /\ API_KEY = "key-1"
    /\ fs = [p \in BatchPaths |-> NoFile]
    /\ pc = "idle"
    /\ phrase = <<>>
    /\ language_code = ""
    /\ printed = <<>>
    /\ Locals0

\* with the default budget of five attempts the retry loop never runs out
\* without a return, so PcmExhausted is no step of the batch
NextBatch ==
    \/ ProcessCsv
    \/ LoopWord
    \/ Call
    \/ \E r \in BatchResponses : PcmAttempt(r)
    \/ Fallback
    \/ Check
    \/ Save
    \/ CallReturn
    \/ LoopEnd
    \/ Exit

SpecBatch == InitBatch /\ [][NextBatch]_vars

----------------------------------------------------------------------------
(* One call of generate_and_save_audio on a text of several parts *)

MaxParts == 3          \* most parts of a text in SpecParts

PartWords == {<<"a">>, <<" ", "b">>}

\* '/'.join(p)
RECURSIVE JoinParts(_)
JoinParts(p) ==
    IF Len(p) = 0 THEN <<>>
    ELSE IF Len(p) = 1 THEN p[1]
    ELSE p[1] \o <<"/">> \o JoinParts(Tail(p))

PartTexts == {JoinParts(p) : p \in UNION {[1..k -> PartWords] : k \in 2..MaxParts}}

\* what the primary provider answers in SpecParts: no answer, or audio at
\* one of two sample rates
PartResponses ==
    {r \in ComposerResponses :
        \/ ~r.sent
        \/ r.status_code = 200 /\ r.body.shape = "inline" /\ r.body.data = "AQEBAQ=="
              /\ r.body.mime \in {"audio/L16;codec=pcm;rate=24000",
                                  "audio/L16;rate=16000"}}

InitParts ==
    /\ text \in PartTexts
    /\ output_filename = OutFile
    /\ quiet = FALSE
    /\ verbose = FALSE
    /\ API_KEY = "key-1"
    /\ printed = <<>>
    /\ NoBatch
    /\ lang = "es"
    /\ voice_type = "neural2"
    /\ pause_duration_ms = DefaultPause
    /\ retries \in 1..MaxRetries
    /\ backoff_factor = DefaultBackoff
    /\ fs = [p \in Paths |-> NoFile]
    /\ pc = "start"
    /\ phrase = <<>>
    /\ language_code = ""
    /\ Locals0

\* the budget is at least one attempt, so PcmExhausted is no step here
NextParts ==
    \/ Call
    \/ \E r \in PartResponses : PcmAttempt(r)
    \/ Fallback
    \/ Check
    \/ Save

SpecParts == InitParts /\ [][NextParts]_vars

----------------------------------------------------------------------------
(* Claims *)

\* C1: a call whose destination already exists returns True at once, makes no
\* request to the primary provider and no call of the secondary provider, and
\* leaves the file as it was, whatever the text, language, voice type and pause
\* duration.
C1_ExistingFileShortCircuit ==
    /\ [](pc = "done" /\ fs[output_filename] = OldFile
            => result = Returned(TRUE) /\ log = <<>>)
    /\ [][pc = "start" /\ fs[output_filename] # NoFile
            => /\ pc' = "done"
               /\ result' = Returned(TRUE)
               /\ log' = <<>>
               /\ fs'[output_filename] = fs[output_filename]]_vars

C1_Witness ==
    /\ pc = "done"
    /\ fs[output_filename] = OldFile
    /\ result = Returned(TRUE)
    /\ HasSlash(text)
    /\ lang = "en"
    /\ voice_type = "wavenet"
    /\ pause_duration_ms = 250

\* C2: a call on a destination that does not exist leaves either no file or a
\* complete container file: when the call does not succeed, there is no file at
\* the destination afterwards, and a truncated file is never there.
C2_NoFileOrFullFile ==
    /\ fs[output_filename].tag \in {"absent", "old", "wav"}
    /\ (pc = "done" /\ result # Returned(TRUE)) => fs[output_filename] = NoFile

\* C3: with retry budget N, one call of generate_audio_pcm sends at most N
\* requests (none when N <= 0), numbered 0, 1, ... in order; it returns the
\* audio right after the first request that yields valid audio; and when no
\* attempt succeeds it returns (None, None).
C3_BoundedOrderedAttempts ==
    LET IsPost(e) == e.op = "post"
        posts == SelectSeq(log, IsPost)
    IN  /\ Len(posts) <= (IF retries <= 0 THEN 0 ELSE retries)
        /\ \A k \in 1..Len(posts) : posts[k].n = k - 1
        /\ (pc = "fallback" /\ pcm_data # None)
              => log # <<>> /\ log[Len(log)].op = "post"
        /\ (pc # "pcm" /\ ~(pc = "fallback" /\ pcm_data # None))
              => pc = "fallback" /\ pcm_data = None /\ rate = NoRate

\* C4: HTTP 429 on attempt a that is not the last one: the call sleeps exactly
\* the Retry-After value when the response carries one, and exactly
\* max(2, B * 2^a) seconds otherwise, and goes on to attempt a + 1.
C4_RateLimitSleep ==
    LET IsPost(e) == e.op = "post"
        posts == SelectSeq(log, IsPost)
        a == posts[Len(posts)].n
        slept == log[Len(log)]
        formula == IF backoff_factor * 2^a >= 2 THEN backoff_factor * 2^a ELSE 2
    IN  (response.sent /\ response.status_code = 429 /\ a < retries - 1)
            => /\ pc = "pcm"
               /\ i = a + 1
               /\ slept.op = "sleep"
               /\ response.retry_after \in {Absent, ""} => slept.n = formula
               /\ response.retry_after = "5" => slept.n = 5
               /\ response.retry_after = "0" => slept.n = 0

\* C5: an HTTP error other than 429, or a network error, on attempt a that is
\* not the last one: the call sleeps exactly B * 2^a seconds, without a floor,
\* and goes on to attempt a + 1.
C5_TransientSleep ==
    LET IsPost(e) == e.op = "post"
        posts == SelectSeq(log, IsPost)
        a == posts[Len(posts)].n
    IN  (/\ response # NoResponse
         /\ ~response.sent \/ response.status_code \notin {200, 429}
         /\ a < retries - 1)
            => /\ pc = "pcm"
               /\ i = a + 1
               /\ Len(log) >= 2
               /\ log[Len(log) - 1].op = "post"
               /\ log[Len(log) - 1].n = a
               /\ log[Len(log)].op = "sleep"
               /\ log[Len(log)].n = backoff_factor * 2^a

C5_Witness ==
    /\ response.sent
    /\ response.status_code = 500
    /\ backoff_factor = 3
    /\ i = 2
    /\ pc = "pcm"
    /\ log[Len(log)].op = "sleep"
    /\ log[Len(log)].n = 6

\* C6: a 200 response whose body is malformed or empty (not parseable, no
\* candidates, no audio payload, no or non-audio MIME type, no parseable rate=
\* parameter, undecodable base64) ends the call on that attempt: no further
\* request, no sleep, and (None, None) is returned.
C6_MalformedBodyFailsAtOnce ==
    LET body == response.body
        malformed ==
            \/ body.shape \in {"not_json", "no_candidates", "empty_candidates"}
            \/ body.data \in {Absent, "", "AQEBAQ"}
            \/ body.mime \in {Absent, "text/plain", "audio/L16",
                              "audio/L16;rate=24000;codec=pcm"}
    IN  (response.sent /\ response.status_code = 200 /\ malformed)
            => /\ pc = "fallback"
               /\ pcm_data = None
               /\ rate = NoRate
               /\ log[Len(log)].op = "post"

\* C7: for each part, the secondary provider is called only after
\* generate_audio_pcm returned failure for that part, and then exactly once;
\* it is not called for a part the primary provider synthesized; and no
\* request for a part goes to the primary provider after the secondary call
\* for that part.
C7_SecondaryOnlyAfterPrimaryFailure ==
    /\ [](\A k \in 1..Len(log) :
            log[k].op = "tts" =>
                /\ \A m \in 1..Len(log) :
                      (m # k /\ log[m].op = "tts") => log[m].idx # log[k].idx
                /\ \A m \in (k + 1)..Len(log) : log[m].idx > log[k].idx
                /\ \A m \in 1..(k - 1) :
                      (log[m].op = "post" /\ log[m].idx = log[k].idx)
                          => log[m].text[2] = log[k].text[2])
    /\ [][/\ (pc = "fallback" /\ pcm_data = None)
                => /\ Len(log') = Len(log) + 1
                   /\ SubSeq(log', 1, Len(log)) = log
                   /\ log'[Len(log')].op = "tts"
                   /\ log'[Len(log')].idx = idx
                   /\ log'[Len(log')].text[2] = phrase
          /\ (pc = "fallback" /\ pcm_data # None) => log' = log
          /\ (log' # log /\ log'[Len(log')].op = "tts")
                => pc = "fallback" /\ pcm_data = None]_vars

C7_Witness ==
    /\ \E k \in 1..Len(log) :
          /\ log[k].op = "tts"
          /\ log[k].idx = 1
          /\ \E m \in 1..(k - 1) : log[m].op = "post" /\ log[m].idx = 1
    /\ \E k \in 1..Len(log) : log[k].op = "post" /\ log[k].idx = 0
    /\ \A k \in 1..Len(log) : log[k].op = "tts" => log[k].idx # 0
    /\ pc = "done"
    /\ result = Returned(TRUE)

\* C8: when every one of the k >= 1 parts of the text synthesizes at the same
\* rate, the PCM written is 100 ms of silence, then the k part buffers in the
\* order of the parts, with a silence of the configured pause duration between
\* consecutive parts and none after the last.
C8_ComposedPcm ==
    LET k == Len(SplitParts(text))
        wav == fs[output_filename]
        Silence(ms) ==
            LET n == 2 * ((wav.framerate * ms) \div 1000)
            IN  IF n = 0 THEN <<>> ELSE <<[b |-> 0, n |-> n]>>
        RECURSIVE From(_)
        From(j) ==
            IF j > Len(got) THEN <<>>
            ELSE IF j = Len(got) THEN got[j].pcm
            ELSE Cat(got[j].pcm, Cat(Silence(pause_duration_ms), From(j + 1)))
    IN  (wav.tag = "wav" /\ k >= 1)
            => /\ Len(got) = k
               /\ \A j \in 1..k : got[j].rate = wav.framerate
               /\ wav.data = Cat(Silence(100), From(1))
               /\ wav.data_size = LenBytes(wav.data)
               /\ \A m \in 1..Len(log) :
                     log[m].op # "sleep"
                         => Strip(log[m].text[2]) = SplitParts(text)[log[m].idx + 1]

C8_Witness ==
    /\ fs[output_filename].tag = "wav"
    /\ Len(got) = 2
    /\ got[1].pcm # got[2].pcm
    /\ pause_duration_ms = 250
    /\ text = <<"b", "/", "a">>

\* C9: in a multi-part request, a synthesized part whose sample rate differs
\* from the rate of the first synthesized part makes the call return False,
\* and no output file is created.
C9_RateMismatchFails ==
    /\ [](fs[output_filename].tag = "wav"
            => \A j \in 1..Len(got) : got[j].rate = got[1].rate)
    /\ [][(pc = "check" /\ pcm_data # None /\ got # <<>> /\ rate # got[1].rate)
            => /\ pc' = "done"
               /\ result' = Returned(FALSE)
               /\ fs'[output_filename] = NoFile
               /\ got' = got]_vars

C9_Witness ==
    /\ pc = "done"
    /\ result = Returned(FALSE)
    /\ Len(got) = 1
    /\ got[1].rate = 16000
    /\ pcm_data # None
    /\ rate = 24000
    /\ log[Len(log)].op = "tts"
    /\ fs[output_filename] = NoFile

\* C10, as stated: a text that leaves zero parts after splitting on '/',
\* trimming and dropping empty parts (the empty and the whitespace-only text
\* included) makes the call on an absent destination return False, with no
\* call of either provider and no file created.
C10_ZeroPartsFail ==
    ((\A k \in 1..Len(text) : text[k] \in {"/", " "}) /\ fs[output_filename] # OldFile)
        => /\ log = <<>>
           /\ fs[output_filename] = NoFile
           /\ pc = "done" => result = Returned(FALSE)

\* C10, amended: a text that contains at least one '/' and leaves zero parts
\* after splitting, trimming and dropping empty parts makes the call on an
\* absent destination return False, with no call of either provider and no
\* file created.
C10_ZeroPartsOfSeparatedTextFail ==
    (/\ \E k \in 1..Len(text) : text[k] = "/"
     /\ \A k \in 1..Len(text) : text[k] \in {"/", " "}
     /\ fs[output_filename] # OldFile)
        => /\ log = <<>>
           /\ fs[output_filename] = NoFile
           /\ pc \in {"start", "done"}
           /\ pc = "done" => result = Returned(FALSE)

C10_Witness ==
    /\ text = <<"/", " ", "/">>
    /\ pc = "done"
    /\ result = Returned(FALSE)
    /\ fs[output_filename] = NoFile
    /\ log = <<>>

\* C11: whatever the providers do (audio, HTTP 429 with any Retry-After
\* value, an HTTP error, a network error, a response of any shape), a call of
\* generate_and_save_audio that is over has returned a boolean: every failure
\* of the phrase has become the result False and no error has left the call.
C11_AlwaysReturnsBoolean ==
    pc = "done" => /\ result.kind = "returned"
                   /\ result.value \in BOOLEAN

\* C12: in process_csv the failure of a word, in whatever way, does not end
\* the batch: when process_csv has returned, every non-empty word of the
\* sorted word list has been passed to generate_and_save_audio exactly once.
C12_BatchNeverAborts ==
    bpc \in {"exit", "exited"} =>
        \A k \in 1..Len(words) :
            words[k] # <<>> =>
                Cardinality({j \in 1..Len(calls) : calls[j].word = words[k]}) = 1

\* C13: main exits with status 0 only when no item failed: if the synthesis
\* of at least one word did not return True, the exit status is not 0.
C13_ExitZeroOnlyWithoutFailure ==
    (bpc = "exited" /\ exit_status = 0) =>
        \A j \in 1..Len(calls) : calls[j].result = Returned(TRUE)

\* C14, as stated: of two calls of generate_and_save_audio in a row with the
\* same destination path only the first makes provider calls, and the file
\* at the destination is byte for byte the same after the first and after the
\* second call.
C14_SecondCallIdle ==
    \A j \in 1..(Len(calls) - 1) :
        calls[j + 1].path = calls[j].path =>
            /\ calls[j + 1].log = <<>>
            /\ calls[j + 1].file = calls[j].file

\* C14, amended: when the first of two calls in a row with the same
\* destination path returned True, the second makes no provider call, returns
\* True, and the file at the destination is byte for byte the same after the
\* first and after the second call.
C14_SecondCallIdleAfterSuccess ==
    \A j \in 1..(Len(calls) - 1) :
        (calls[j + 1].path = calls[j].path /\ calls[j].result = Returned(TRUE)) =>
            /\ calls[j + 1].log = <<>>
            /\ calls[j + 1].result = Returned(TRUE)
            /\ calls[j + 1].file = calls[j].file

C14_Witness ==
    /\ Len(calls) = 2
    /\ calls[2].path = calls[1].path
    /\ calls[1].result = Returned(TRUE)
    /\ calls[1].log # <<>>
    /\ calls[1].file.tag = "wav"
    /\ calls[2].log = <<>>
    /\ calls[2].file = calls[1].file

\* C15: distinct stripped words get distinct file names, so that the calls
\* process_csv makes for the words of one batch all have different
\* destination paths and no word is found already synthesized because of the
\* file of another word.
C15_DistinctWordsDistinctPaths ==
    \A j, k \in 1..Len(calls) :
        calls[j].word # calls[k].word => calls[j].path # calls[k].path

\* C16: the API key is in nothing the program prints: no printed message
\* holds the value of the key, so that what is printed is the same whatever
\* the key is, the messages of HTTP and network errors included.
C16_KeyNeverPrinted ==
    \A m \in 1..Len(printed) :
        /\ \A k \in 1..Len(printed[m].e) : printed[m].e[k] \notin Keys
        /\ \A k \in 1..Len(printed[m].text) : printed[m].text[k] \notin Keys

\* C17: when the primary provider answers every one of the N attempts for a
\* phrase with HTTP 429 without Retry-After and the secondary provider then
\* returns audio, the calls made for the phrase are exactly N requests with a
\* sleep of max(2, B * 2^i) seconds after attempt i = 0..N-2 (2, 2, 4, 8 for
\* N = 5, B = 1) and none after the last, then one call of the secondary
\* provider; the phrase's audio is the secondary audio without its first
\* 200 ms, and the file of a single phrase, once written, holds it after the
\* lead-in.
C17_RateLimitedThenSecondary ==
    LET N == retries
        B == backoff_factor
        P == Len(printed) - (IF quiet THEN 0 ELSE 1)
        AllRateLimited ==
            /\ N >= 1
            /\ log # <<>>
            /\ log[Len(log)].op = "tts"
            /\ log[Len(log)].idx = idx
            /\ P >= N + 1
            /\ printed[P].kind = "max_retries_rate_limit"
            /\ \A a \in 1..N :
                   LET m == printed[P - N - 1 + a]
                   IN  /\ m.kind = "rate_limit_backoff"
                       /\ m.text = phrase
                       /\ m.nums[2] = a
                       /\ m.nums[3] = N
        ofPhrase == SelectSeq(log, LAMBDA e : e.idx = idx)
        trimmed == DropBytes(tts_response.audio_content, 9600)
    IN  (tts_response.kind = "audio" /\ AllRateLimited) =>
            /\ pc = "check" =>
                   /\ Len(ofPhrase) = 2 * N
                   /\ \A a \in 0..(N - 1) :
                          /\ ofPhrase[2 * a + 1].op = "post"
                          /\ ofPhrase[2 * a + 1].n = a
                   /\ \A a \in 0..(N - 2) :
                          /\ ofPhrase[2 * a + 2].op = "sleep"
                          /\ ofPhrase[2 * a + 2].n = (IF B * Pow2(a) > 2
                                                      THEN B * Pow2(a) ELSE 2)
                   /\ ofPhrase[2 * N].op = "tts"
                   /\ pcm_data = Pcm(trimmed)
                   /\ rate = 24000
            /\ (pc = "done" /\ parts = <<>> /\ result = Returned(TRUE)) =>
                   /\ fs[output_filename].tag = "wav"
                   /\ fs[output_filename].framerate = 24000
                   /\ fs[output_filename].data = Cat(Bytes(0, 4800), trimmed)

C17_Witness ==
    /\ pc = "done"
    /\ result = Returned(TRUE)
    /\ retries = 5
    /\ backoff_factor = 1
    /\ [k \in 1..Len(log) |-> log[k].n] = <<0, 2, 1, 2, 2, 4, 3, 8, 4, 0>>
    /\ log[10].op = "tts"
    /\ fs[output_filename].tag = "wav"
    /\ fs[output_filename].data = <<[b |-> 0, n |-> 9600], [b |-> 3, n |-> 4]>>

\* C18: the audio generate_audio_google_cloud_tts returns for a phrase is
\* the synthesized audio without its first 200 ms (int(24000 * 200 / 1000)
\* samples of 2 bytes, 9600 bytes), or the empty buffer when the synthesized
\* audio is no longer than that; the bytes left are an unchanged suffix of
\* the synthesized audio, and the sample rate returned is 24000.
C18_SecondaryTrimmed ==
    (pc = "check" /\ log # <<>> /\ log[Len(log)].op = "tts"
     /\ tts_response.kind = "audio") =>
        LET audio == tts_response.audio_content
            n == LenBytes(audio)
            out == pcm_data.bytes
        IN  /\ pcm_data # None
            /\ rate = 24000
            /\ LenBytes(out) = (IF n > 9600 THEN n - 9600 ELSE 0)
            /\ \/ out = <<>>
               \/ \E j \in 1..Len(audio) :
                      /\ out[1].b = audio[j].b
                      /\ out[1].n <= audio[j].n
                      /\ Tail(out) = SubSeq(audio, j + 1, Len(audio))

C18_Witness ==
    /\ pc = "check"
    /\ log # <<>>
    /\ log[Len(log)].op = "tts"
    /\ tts_response.audio_content = <<[b |-> 0, n |-> 14400], [b |-> 3, n |-> 4]>>
    /\ pcm_data = Pcm(<<[b |-> 0, n |-> 4800], [b |-> 3, n |-> 4]>>)
    /\ rate = 24000

\* C19: one call of generate_audio_google_cloud_tts makes at most one
\* synthesis request; when the creation of the client or the request raises,
\* the call returns (None, None): the error does not leave the call and
\* nothing is tried again.
C19_SecondaryOnceAndContained ==
    [][(pc = "fallback" /\ pcm_data = None) =>
          /\ tts_response'.requests <= 1
          /\ Len(log') = Len(log) + 1
          /\ log'[Len(log')].op = "tts"
          /\ tts_response'.kind \in {"client_error", "synth_error"} =>
                 /\ pcm_data' = None
                 /\ rate' = NoRate
                 /\ result' = result
                 /\ pc' = "check"
          /\ tts_response'.kind = "client_error" => tts_response'.requests = 0]_vars

C19_Witness ==
    /\ pc = "check"
    /\ tts_response.kind = "synth_error"
    /\ tts_response.requests = 1
    /\ pcm_data = None
    /\ rate = NoRate
    /\ result.kind = "running"
    /\ log[Len(log)].op = "tts"

\* C20, as stated: for a text without separator generate_and_save_audio
\* behaves as the multi-part composition applied to the one-element part list
\* [trimmed text]: the phrase sent to the providers is the trimmed text, the
\* result is the same, and on success the PCM written is 100 ms of silence
\* (int(rate * 100 / 1000) samples) followed by the phrase's buffer, with no
\* pause.
C20_SinglePhraseAsOnePart ==
    ~HasSlash(text) =>
        /\ \A k \in 1..Len(log) :
               /\ log[k].idx = 0
               /\ log[k].op = "post" => log[k].text = Prompt(LanguageCode(lang), Strip(text))
               /\ log[k].op = "tts" => log[k].text[2] = Strip(text)
        /\ (pc = "done" /\ result = Returned(FALSE)) => pcm_data = None
        /\ fs[output_filename].tag = "wav" =>
               /\ Len(got) = 1
               /\ fs[output_filename].framerate = got[1].rate
               /\ fs[output_filename].data =
                      Cat(Bytes(0, ((got[1].rate * 100) \div 1000) * 2),
                          PartWithPause(got[1].pcm, 0, <<Strip(text)>>,
                                        pause_duration_ms, got[1].rate))

\* C20, amended: for a text without separator generate_and_save_audio behaves
\* as the multi-part composition applied to the one-element part list [text],
\* the text taken as given and not trimmed: the phrase sent to the providers
\* is the text, the result is the same, and on success the PCM written is
\* 100 ms of silence (int(rate * 100 / 1000) samples) followed by the
\* phrase's buffer, with no pause.
C20_SinglePhraseAsOneUntrimmedPart ==
    ~HasSlash(text) =>
        /\ \A k \in 1..Len(log) :
               /\ log[k].idx = 0
               /\ log[k].op = "post" => log[k].text = Prompt(LanguageCode(lang), text)
               /\ log[k].op = "tts" => log[k].text[2] = text
        /\ (pc = "done" /\ result = Returned(FALSE)) => pcm_data = None
        /\ fs[output_filename].tag = "wav" =>
               /\ Len(got) = 1
               /\ fs[output_filename].framerate = got[1].rate
               /\ fs[output_filename].data =
                      Cat(Bytes(0, ((got[1].rate * 100) \div 1000) * 2),
                          PartWithPause(got[1].pcm, 0, <<text>>,
                                        pause_duration_ms, got[1].rate))

C20_Witness ==
    /\ text = <<" ", "a", " ">>
    /\ pc = "done"
    /\ result = Returned(TRUE)
    /\ log # <<>>
    /\ log[1].text[2] = <<" ", "a", " ">>
    /\ fs[output_filename].tag = "wav"
    /\ fs[output_filename].data = <<[b |-> 0, n |-> 4800], [b |-> 1, n |-> 4]>>

\* C21: pcm_to_wav is a pure function of its arguments: the container it
\* returns records one channel, two bytes per sample and the given sample
\* rate, with the PCM payload unchanged, and the call leaves the filesystem
\* as it was: temp_audio.wav in the working directory, there or not before
\* the call, is the same after it.
C21_PcmToWavPure ==
    [][pc = "save" =>
          /\ fs'[temp_file] = fs[temp_file]
          /\ fs'[output_filename].tag = "wav" =>
                 /\ fs'[output_filename].nchannels = 1
                 /\ fs'[output_filename].bits_per_sample = 16
                 /\ fs'[output_filename].framerate = sample_rate
                 /\ fs'[output_filename].data_size = LenBytes(fs'[output_filename].data)
                 /\ fs'[output_filename].data =
                        Cat(Bytes(0, ((sample_rate * 100) \div 1000) * 2), combined_pcm)]_vars

\* C22: in a multi-part request the parts are synthesized in their original
\* order, one at a time: every provider call is for the part right after the
\* parts accepted so far, so none is made for part j+1 before part j has
\* succeeded, and once a part has failed on both providers or its sample rate
\* does not match, no provider call is made for a later part.
C22_PartsInOrder ==
    HasSlash(text) =>
        /\ Len(got) <= Len(parts)
        /\ \A m \in 1..Len(log) :
               /\ log[m].idx <= Len(got)
               /\ log[m].idx < Len(parts)
               /\ m > 1 => log[m].idx \in {log[m - 1].idx, log[m - 1].idx + 1}
               /\ log[m].op = "post" => log[m].text[2] = parts[log[m].idx + 1]
               /\ log[m].op = "tts" => log[m].text[2] = parts[log[m].idx + 1]
               /\ \A a, b \in 1..log[m].idx : got[a].rate = got[b].rate
        /\ (pc = "done" /\ result = Returned(FALSE) /\ log # <<>>) =>
               log[Len(log)].idx = Len(got)

C22_Witness ==
    /\ pc = "done"
    /\ result = Returned(FALSE)
    /\ Len(parts) = 3
    /\ Len(got) = 1
    /\ pcm_data # None
    /\ rate # got[1].rate
    /\ log[Len(log)].idx = 1
    /\ fs[output_filename] = NoFile

\* C23: whatever the providers answer, a call of generate_and_save_audio on
\* a text of k parts with the retry budget N returns, after at most k * N
\* requests to the primary provider, at most k calls of the secondary
\* provider and, for N >= 1, at most k * (N - 1) sleeps: a call that is over
\* has returned (an error of the local filesystem apart) and the calls made so
\* far are within these numbers.
C23_ReturnsWithinBudget ==
    LET k == IF HasSlash(text) THEN Len(parts) ELSE 1
        N == retries
        Count(op) == Cardinality({m \in 1..Len(log) : log[m].op = op})
    IN  /\ Count("post") <= k * N
        /\ Count("tts") <= k
        /\ N >= 1 => Count("sleep") <= k * (N - 1)
        /\ pc = "done" => (result.kind = "returned" \/ result.exc = "OSError")

====
